---- MODULE Spec2Model ----
(***************************************************************************)
(* Cookie API: an HTTP service that keeps cookie strings per user and per  *)
(* cookie type in Redis hashes ("cookies:<user>:<type>:<category>") with   *)
(* per-category counters in "stats:<user>:<type>".                         *)
(*                                                                         *)
(* Strings that reach a Redis key or a KEYS pattern are sequences of       *)
(* one-character strings, so that key formatting and glob matching are     *)
(* computed the way the program and Redis compute them.  The characters    *)
(* drawn are letters, ':' and the glob metacharacters '*' and '?'; for     *)
(* these stringmatch below is exact.                                       *)
(*                                                                         *)
(* Every handler runs as a sequence of steps, one per Redis command; a     *)
(* step is atomic, as a single Redis command is.                           *)
(***************************************************************************)
EXTENDS Integers, Sequences, FiniteSets, TLC

\* ------------------------------------------------------------------ bounds
\* Requests received in one run.
MaxRequests == 3
\* time.Now().Unix() ranges over 0..MaxTime.
MaxTime == 1

\* ------------------------------------------------------------------ inputs
\* Request slots: requests in flight at the same time.
Slots == {1, 2}

UserIDs == {<<"a">>, <<"*">>}
CookieTypes == {<<"t">>}
\* details.category of a save; <<>> is an omitted or empty category.
SaveCategories == {<<>>, <<"c">>}
\* ?category= of a list; <<>> is no filter.
FilterCategories == {<<>>, <<"c">>, <<"?">>}
\* details.cookie; "" is an omitted or empty cookie.
CookieValues == {"v1", "v2"}
\* ?qty= of a list; <<>> is an absent parameter.
QtyStrs == {<<>>, <<"x">>, <<"0">>, <<"1">>, <<"2">>}
\* The configured API_KEY (never empty: LoadConfig exits otherwise) and the
\* x-api-key headers sent; "" is a missing header.
APIKey == "secret"
ApiKeyHeaders == {"secret", "wrong", ""}

\* ----------------------------------------------------------------- strings
S_cookies == <<"c", "o", "o", "k", "i", "e", "s">>
S_stats == <<"s", "t", "a", "t", "s">>
S_default == <<"d", "e", "f", "a", "u", "l", "t">>
Colon == <<":">>

\* fmt.Sprintf("cookies:%s:%s:%s", userID, cookieType, category)
generateCookieKey(userID, cookieType, category) ==
    S_cookies \o Colon \o userID \o Colon \o cookieType \o Colon \o category

\* fmt.Sprintf("stats:%s:%s", userID, cookieType)
generateStatsKey(userID, cookieType) ==
    S_stats \o Colon \o userID \o Colon \o cookieType

\* fmt.Sprintf("cookies:%s:%s:*", userID, cookieType)
allCategoriesPattern(userID, cookieType) ==
    S_cookies \o Colon \o userID \o Colon \o cookieType \o Colon \o <<"*">>

\* Redis glob matching of the KEYS command: '*' matches any run of
\* characters, '?' any one character, every other character itself.
RECURSIVE stringmatch(_, _)
stringmatch(pattern, str) ==
    IF pattern = <<>> THEN str = <<>>
    ELSE IF Head(pattern) = "*"
         THEN \/ stringmatch(Tail(pattern), str)
              \/ str # <<>> /\ stringmatch(pattern, Tail(str))
    ELSE IF Head(pattern) = "?"
         THEN str # <<>> /\ stringmatch(Tail(pattern), Tail(str))
    ELSE str # <<>> /\ Head(str) = Head(pattern)
                    /\ stringmatch(Tail(pattern), Tail(str))

\* strconv.Atoi: an optional sign and decimal digits; anything else is an
\* error.
Digit(c) == CASE c = "0" -> 0 [] c = "1" -> 1 [] c = "2" -> 2 [] OTHER -> -1

RECURSIVE AtoiDigits(_, _)
AtoiDigits(s, acc) ==
    IF s = <<>> THEN acc
    ELSE IF Digit(Head(s)) < 0 THEN -1
    ELSE AtoiDigits(Tail(s), 10 * acc + Digit(Head(s)))

Atoi(s) ==
    LET signed == s # <<>> /\ Head(s) \in {"-", "+"}
        digits == IF signed THEN Tail(s) ELSE s
        n      == AtoiDigits(digits, 0)
    IN  IF digits = <<>> \/ n < 0 THEN [err |-> TRUE, val |-> 0]
        ELSE [err |-> FALSE, val |-> IF signed /\ Head(s) = "-" THEN 0 - n ELSE n]

\* ------------------------------------------------------------ Redis hashes
\* The database is a function from the keys that exist to their hashes; a
\* hash is a function from its fields to their values.  Redis drops a key
\* when its hash loses its last field.
EmptyDB == <<>>

HashPut(h, f, val) == [x \in (DOMAIN h) \cup {f} |-> IF x = f THEN val ELSE h[x]]

HashDrop(h, f) == [x \in (DOMAIN h) \ {f} |-> h[x]]

HExists(d, key, f) == key \in DOMAIN d /\ f \in DOMAIN d[key]

HSet(d, key, f, val) ==
    IF key \in DOMAIN d
    THEN [d EXCEPT ![key] = HashPut(@, f, val)]
    ELSE [k \in (DOMAIN d) \cup {key} |-> IF k = key THEN HashPut(<<>>, f, val) ELSE d[k]]

HDel(d, key, f) ==
    IF ~HExists(d, key, f) THEN d
    ELSE IF DOMAIN d[key] = {f}
         THEN [k \in (DOMAIN d) \ {key} |-> d[k]]
         ELSE [d EXCEPT ![key] = HashDrop(@, f)]

\* HINCRBY: a missing field counts as 0.
HIncrBy(d, key, f, delta) ==
    HSet(d, key, f, (IF HExists(d, key, f) THEN d[key][f] ELSE 0) + delta)

\* KEYS pattern: the keys that match, in no particular order.
Keys(d, pattern) == {k \in DOMAIN d : stringmatch(pattern, k)}

\* The orders in which the members of a set can be enumerated.
Orders(S) ==
    {q \in [1..Cardinality(S) -> S] : \A i, j \in 1..Cardinality(S) : q[i] = q[j] => i = j}

\* ------------------------------------------------------------------- state
VARIABLES
    db,      \* the Redis database
    now,     \* the latest reading of time.Now().Unix()
    req,     \* per slot: the request, its handler's position and locals
    nreq,    \* requests received so far
    pre,     \* sequential runs: the database when the latest request arrived
    resaved  \* whether some save has overwritten a value already stored

vars == <<db, now, req, nreq, pre, resaved>>

NoRequest ==
    [route |-> "none", apiKey |-> "", userID |-> <<>>, cookieType |-> <<>>,
     contentLength |-> 0, shortRead |-> FALSE, json |-> "ok",
     operation |-> "", category |-> <<>>, cookie |-> "",
     qtyStr |-> <<>>, randomStr |-> "",
     pc |-> "idle", cat |-> <<>>, keys |-> <<>>, idx |-> 0,
     removedCategory |-> <<>>, cookies |-> <<>>, qty |-> 0,
     cmds |-> 0, failed |-> {}, stats |-> <<>>,
     status |-> 0, body |-> "", list |-> <<>>, details |-> <<>>]

Init ==
    /\ db = EmptyDB
    /\ now = 0
    /\ req = [s \in Slots |-> NoRequest]
    /\ nreq = 0
    /\ pre = EmptyDB
    /\ resaved = FALSE

\* ---------------------------------------------------------------- requests
\* A POST to /api/v3/cookies/{cookie_type}/{user_id}.  contentLength is -1
\* when the request declares no length (chunked); shortRead says that the one
\* Read of the dispatcher returned less than the whole body; json is "ok",
\* "syntax" (not JSON) or "types" (JSON whose details do not fit the struct).
PostRequests ==
    {[NoRequest EXCEPT !.route = "POST", !.apiKey = k, !.userID = u, !.cookieType = t,
                       !.contentLength = n, !.shortRead = sr, !.json = j,
                       !.operation = o, !.category = c, !.cookie = v] :
        k \in ApiKeyHeaders, u \in UserIDs, t \in CookieTypes, n \in {-1, 1},
        sr \in BOOLEAN, j \in {"ok", "syntax", "types"},
        o \in {"saveCookie", "removeCookie", "other", ""},
        c \in SaveCategories, v \in CookieValues \cup {""}}

\* A GET to the same path; a body it carries (operation) is never read.
GetRequests ==
    {[NoRequest EXCEPT !.route = "GET", !.apiKey = k, !.userID = u, !.cookieType = t,
                       !.operation = o, !.category = c, !.qtyStr = q, !.randomStr = r] :
        k \in ApiKeyHeaders, u \in UserIDs, t \in CookieTypes, o \in {"", "other"},
        c \in FilterCategories, q \in QtyStrs, r \in {"", "true"}}

\* A GET to /api/v3/cookies/{cookie_type}/{user_id}/stats.
StatsRequests ==
    {[NoRequest EXCEPT !.route = "STATS", !.apiKey = k, !.userID = u, !.cookieType = t] :
        k \in ApiKeyHeaders, u \in UserIDs, t \in CookieTypes}

\* How many things are unusual about what a request says.
B2N(b) == IF b THEN 1 ELSE 0

Anomalies(r) ==
    B2N(r.apiKey # APIKey) + B2N(r.json # "ok")
    + B2N(r.route = "POST" /\ r.operation \notin {"saveCookie", "removeCookie"})
    + B2N(r.route = "POST" /\ r.cookie = "")
    + B2N(r.route = "GET" /\ r.operation # "")
    + B2N(r.route = "GET" /\ r.qtyStr # <<>>
                           /\ (Atoi(r.qtyStr).err \/ Atoi(r.qtyStr).val <= 0))

\* Whether its body travels unusually: no declared length, or a short read.
OddTransport(r) == r.contentLength < 0 \/ r.shortRead

\* The plainest request of each kind: the unusual requests vary it.
Plain(r) ==
    /\ r.userID = <<"a">>
    /\ r.cookie \in {"v1", ""}
    /\ r.category = <<>>
    /\ r.randomStr = ""
    /\ r.route = "GET" => (r.qtyStr = <<>> \/ Anomalies([r EXCEPT !.qtyStr = <<>>]) = 0)
    /\ ~(r.contentLength < 0 /\ r.shortRead)

\* The requests drawn: the well-formed ones; the plain ones that say one
\* unusual thing; the plain POSTs with an unusual transport, of a known or
\* an unknown operation.  This keeps every rejection path and drops most of
\* their combinations.  A remove carries no category.
Requests ==
    {r \in PostRequests \cup GetRequests \cup StatsRequests :
        /\ r.operation = "removeCookie" => r.category = <<>>
        /\ \/ Anomalies(r) = 0 /\ ~OddTransport(r)
           \/ Anomalies(r) = 1 /\ ~OddTransport(r) /\ Plain(r)
           \/ /\ OddTransport(r) /\ Plain(r) /\ r.apiKey = APIKey /\ r.json = "ok"
              /\ r.cookie # "" /\ r.operation \in {"saveCookie", "removeCookie", "other"}}

\* ------------------------------------------------------------------ actions
Free(s) == req[s].pc \in {"idle", "done"}

\* The handler of slot s moves to position p.
Goto(s, p) == [req[s] EXCEPT !.pc = p]

\* The handler r answers and returns; its locals are gone with it.
Respond(r, code, msg) ==
    [r EXCEPT !.pc = "done", !.status = code, !.body = msg,
              !.cat = <<>>, !.keys = <<>>, !.idx = 0, !.removedCategory = <<>>,
              !.cookies = <<>>, !.qty = 0]

\* sendErrorResponse(w, message, statusCode)
sendErrorResponse(r, message, statusCode) == Respond(r, statusCode, message)

\* sendSuccessResponse(w): 200 and {"success": true}
sendSuccessResponse(r) == Respond(r, 200, "success")

\* One Redis command issued by the handler r.
Cmd(r) == [r EXCEPT !.cmds = @ + 1]

\* A request arrives and the router hands it to its route's handler chain.
Arrive(s, r) ==
    /\ nreq < MaxRequests
    /\ Free(s)
    /\ req' = [req EXCEPT ![s] = [r EXCEPT !.pc = "Authenticate"]]
    /\ nreq' = nreq + 1
    /\ UNCHANGED <<db, now, resaved>>

\* Authenticate with a request without the header let through.
Authenticate_MissingHeaderPasses(s) ==
    /\ req[s].pc = "Authenticate"
    /\ req' = [req EXCEPT ![s] =
                 IF req[s].apiKey # "" /\ req[s].apiKey # APIKey
                 THEN sendErrorResponse(req[s], "Unauthorized", 401)
                 ELSE Goto(s, CASE req[s].route = "POST" -> "HandleCookieOperations"
                                [] req[s].route = "GET" -> "GetCookies"
                                [] OTHER -> "GetStats")]
    /\ UNCHANGED <<db, now, nreq, pre, resaved>>

\* Authenticate with the dispatcher's route registered for GET as well.
Authenticate_GetToDispatcher(s) ==
    /\ req[s].pc = "Authenticate"
    /\ req' = [req EXCEPT ![s] =
                 IF req[s].apiKey # APIKey
                 THEN sendErrorResponse(req[s], "Unauthorized", 401)
                 ELSE Goto(s, CASE req[s].route \in {"POST", "GET"} -> "HandleCookieOperations"
                                [] OTHER -> "GetStats")]
    /\ UNCHANGED <<db, now, nreq, pre, resaved>>

\* Authenticate: the x-api-key header against the configured key.
Authenticate(s) ==
    /\ req[s].pc = "Authenticate"
    /\ req' = [req EXCEPT ![s] =
                 IF req[s].apiKey # APIKey
                 THEN sendErrorResponse(req[s], "Unauthorized", 401)
                 ELSE Goto(s, CASE req[s].route = "POST" -> "HandleCookieOperations"
                                [] req[s].route = "GET" -> "GetCookies"
                                [] OTHER -> "GetStats")]
    /\ UNCHANGED <<db, now, nreq, pre, resaved>>

\* HandleCookieOperations with no default case: an unknown operation falls
\* out of the switch, and net/http answers 200 with an empty body.
HandleCookieOperations_NoDefault(s) ==
    /\ req[s].pc = "HandleCookieOperations"
    /\ req' = [req EXCEPT ![s] =
                 IF req[s].contentLength < 0 THEN Respond(req[s], 0, "panic")
                 ELSE IF req[s].shortRead \/ req[s].json = "syntax"
                      THEN sendErrorResponse(req[s], "Invalid JSON", 400)
                 ELSE IF req[s].operation = "saveCookie" THEN Goto(s, "SaveCookie")
                 ELSE IF req[s].operation = "removeCookie" THEN Goto(s, "RemoveCookie")
                 ELSE Respond(req[s], 200, "")]
    /\ UNCHANGED <<db, now, nreq, pre, resaved>>

\* HandleCookieOperations: read the body once, peek at "operation", dispatch.
\* make([]byte, r.ContentLength) panics on a request without a declared
\* length; net/http recovers and drops the connection (status 0).
HandleCookieOperations(s) ==
    /\ req[s].pc = "HandleCookieOperations"
    /\ req' = [req EXCEPT ![s] =
                 IF req[s].contentLength < 0 THEN Respond(req[s], 0, "panic")
                 ELSE IF req[s].shortRead \/ req[s].json = "syntax"
                      THEN sendErrorResponse(req[s], "Invalid JSON", 400)
                 ELSE IF req[s].operation = "saveCookie" THEN Goto(s, "SaveCookie")
                 ELSE IF req[s].operation = "removeCookie" THEN Goto(s, "RemoveCookie")
                 ELSE sendErrorResponse(req[s], "Invalid operation", 400)]
    /\ UNCHANGED <<db, now, nreq, pre, resaved>>

\* SaveCookie storing an omitted category as it came (no default applied).
SaveCookie_KeepsEmptyCategory(s) ==
    /\ req[s].pc = "SaveCookie"
    /\ req' = [req EXCEPT ![s] =
                 IF req[s].json # "ok" THEN sendErrorResponse(req[s], "Invalid JSON", 400)
                 ELSE IF req[s].operation # "saveCookie" \/ req[s].cookie = ""
                      THEN sendErrorResponse(req[s], "Invalid request", 400)
                 ELSE [Goto(s, "SaveHSet") EXCEPT !.cat = req[s].category]]
    /\ UNCHANGED <<db, now, nreq, pre, resaved>>

\* SaveCookie, up to the first Redis command: decode, validate, default the
\* category.
SaveCookie(s) ==
    /\ req[s].pc = "SaveCookie"
    /\ req' = [req EXCEPT ![s] =
                 IF req[s].json # "ok" THEN sendErrorResponse(req[s], "Invalid JSON", 400)
                 ELSE IF req[s].operation # "saveCookie" \/ req[s].cookie = ""
                      THEN sendErrorResponse(req[s], "Invalid request", 400)
                 ELSE [Goto(s, "SaveHSet") EXCEPT
                          !.cat = IF req[s].category = <<>> THEN S_default
                                  ELSE req[s].category]]
    /\ UNCHANGED <<db, now, nreq, pre, resaved>>

\* json.Marshal(CookieData{...}): the record stored under the cookie's field.
CookieData(cookie, category, timestamp) ==
    [cookie |-> cookie, category |-> category, timestamp |-> timestamp]

\* SaveHSet keeping the record already stored for the value (HSETNX).
SaveHSet_KeepsFirst(s) ==
    /\ req[s].pc = "SaveHSet"
    /\ \E timestamp \in now..MaxTime :
          /\ now' = timestamp
          /\ LET cookieKey == generateCookieKey(req[s].userID, req[s].cookieType, req[s].cat)
             IN  db' = IF HExists(db, cookieKey, req[s].cookie) THEN db
                       ELSE HSet(db, cookieKey, req[s].cookie,
                                 CookieData(req[s].cookie, req[s].cat, timestamp))
    /\ resaved' = (resaved \/ HExists(db, generateCookieKey(req[s].userID, req[s].cookieType,
                                                            req[s].cat), req[s].cookie))
    /\ req' = [req EXCEPT ![s] = Cmd(Goto(s, "SaveHIncrBy"))]
    /\ UNCHANGED <<nreq, pre>>

\* SaveCookie: read the clock (it never runs backwards), then
\* HSET cookieKey cookie cookieJSON.
SaveHSet(s) ==
    /\ req[s].pc = "SaveHSet"
    /\ \E timestamp \in now..MaxTime :
          /\ now' = timestamp
          /\ db' = HSet(db, generateCookieKey(req[s].userID, req[s].cookieType, req[s].cat),
                        req[s].cookie, CookieData(req[s].cookie, req[s].cat, timestamp))
    /\ resaved' = (resaved \/ HExists(db, generateCookieKey(req[s].userID, req[s].cookieType,
                                                            req[s].cat), req[s].cookie))
    /\ req' = [req EXCEPT ![s] = Cmd(Goto(s, "SaveHIncrBy"))]
    /\ UNCHANGED <<nreq, pre>>

\* SaveHIncrBy counting a value only when the save has added it.
SaveHIncrBy_OnlyNewValues(s) ==
    /\ req[s].pc = "SaveHIncrBy"
    /\ db' = IF HExists(pre, generateCookieKey(req[s].userID, req[s].cookieType, req[s].cat),
                        req[s].cookie)
             THEN db
             ELSE HIncrBy(db, generateStatsKey(req[s].userID, req[s].cookieType),
                          req[s].cat, 1)
    /\ req' = [req EXCEPT ![s] = Cmd(sendSuccessResponse(req[s]))]
    /\ UNCHANGED <<now, nreq, pre, resaved>>

\* SaveCookie: HINCRBY statsKey category 1, then the success response.
SaveHIncrBy(s) ==
    /\ req[s].pc = "SaveHIncrBy"
    /\ db' = HIncrBy(db, generateStatsKey(req[s].userID, req[s].cookieType), req[s].cat, 1)
    /\ req' = [req EXCEPT ![s] = Cmd(sendSuccessResponse(req[s]))]
    /\ UNCHANGED <<now, nreq, pre, resaved>>

\* RemoveCookie, up to the first Redis command: decode and validate.
RemoveCookie(s) ==
    /\ req[s].pc = "RemoveCookie"
    /\ req' = [req EXCEPT ![s] =
                 IF req[s].json # "ok" THEN sendErrorResponse(req[s], "Invalid JSON", 400)
                 ELSE IF req[s].operation # "removeCookie" \/ req[s].cookie = ""
                      THEN sendErrorResponse(req[s], "Invalid request", 400)
                 ELSE Goto(s, "RemoveKeys")]
    /\ UNCHANGED <<db, now, nreq, pre, resaved>>

\* RemoveCookie: KEYS cookies:<user>:<type>:* ; with no key the loop and the
\* stats update are skipped.
RemoveKeys(s) ==
    /\ req[s].pc = "RemoveKeys"
    /\ \E q \in Orders(Keys(db, allCategoriesPattern(req[s].userID, req[s].cookieType))) :
          req' = [req EXCEPT ![s] =
                    Cmd(IF q = <<>> THEN sendSuccessResponse(req[s])
                        ELSE [Goto(s, "RemoveHExists") EXCEPT !.keys = q, !.idx = 1])]
    /\ UNCHANGED <<db, now, nreq, pre, resaved>>

\* RemoveCookie, loop: HEXISTS key cookie.
RemoveHExists(s) ==
    /\ req[s].pc = "RemoveHExists"
    /\ req' = [req EXCEPT ![s] =
                 Cmd(IF HExists(db, req[s].keys[req[s].idx], req[s].cookie)
                     THEN Goto(s, "RemoveHGet")
                     ELSE IF req[s].idx < Len(req[s].keys)
                          THEN [req[s] EXCEPT !.idx = @ + 1]
                     ELSE sendSuccessResponse(req[s]))]
    /\ UNCHANGED <<db, now, nreq, pre, resaved>>

\* RemoveCookie, loop: HGET key cookie; the category is read from the stored
\* record (a field that is gone by now leaves removedCategory empty).
RemoveHGet(s) ==
    /\ req[s].pc = "RemoveHGet"
    /\ req' = [req EXCEPT ![s] =
                 Cmd([Goto(s, "RemoveHDel") EXCEPT !.removedCategory =
                        IF HExists(db, req[s].keys[req[s].idx], req[s].cookie)
                        THEN db[req[s].keys[req[s].idx]][req[s].cookie].category
                        ELSE <<>>])]
    /\ UNCHANGED <<db, now, nreq, pre, resaved>>

\* RemoveCookie, loop: HDEL key cookie, then break.
RemoveHDel(s) ==
    /\ req[s].pc = "RemoveHDel"
    /\ db' = HDel(db, req[s].keys[req[s].idx], req[s].cookie)
    /\ req' = [req EXCEPT ![s] =
                 Cmd(IF req[s].removedCategory # <<>> THEN Goto(s, "RemoveHIncrBy")
                     ELSE sendSuccessResponse(req[s]))]
    /\ UNCHANGED <<now, nreq, pre, resaved>>

\* RemoveCookie: HINCRBY statsKey removedCategory -1.
RemoveHIncrBy(s) ==
    /\ req[s].pc = "RemoveHIncrBy"
    /\ db' = HIncrBy(db, generateStatsKey(req[s].userID, req[s].cookieType),
                     req[s].removedCategory, -1)
    /\ req' = [req EXCEPT ![s] = Cmd(Goto(s, "RemoveHGetCount"))]
    /\ UNCHANGED <<now, nreq, pre, resaved>>

\* RemoveHGetCount deleting the category only below zero (count < 0).
RemoveHGetCount_BelowZero(s) ==
    /\ req[s].pc = "RemoveHGetCount"
    /\ LET statsKey == generateStatsKey(req[s].userID, req[s].cookieType)
       IN  req' = [req EXCEPT ![s] =
                     Cmd(IF /\ HExists(db, statsKey, req[s].removedCategory)
                            /\ db[statsKey][req[s].removedCategory] < 0
                         THEN Goto(s, "RemoveHDelStats")
                         ELSE sendSuccessResponse(req[s]))]
    /\ UNCHANGED <<db, now, nreq, pre, resaved>>

\* RemoveCookie: HGET statsKey removedCategory; a count <= 0 is to be deleted
\* (a missing field is an error of HGet, and then nothing is deleted).
RemoveHGetCount(s) ==
    /\ req[s].pc = "RemoveHGetCount"
    /\ LET statsKey == generateStatsKey(req[s].userID, req[s].cookieType)
       IN  req' = [req EXCEPT ![s] =
                     Cmd(IF /\ HExists(db, statsKey, req[s].removedCategory)
                            /\ db[statsKey][req[s].removedCategory] <= 0
                         THEN Goto(s, "RemoveHDelStats")
                         ELSE sendSuccessResponse(req[s]))]
    /\ UNCHANGED <<db, now, nreq, pre, resaved>>

\* RemoveCookie: HDEL statsKey removedCategory, then the success response.
RemoveHDelStats(s) ==
    /\ req[s].pc = "RemoveHDelStats"
    /\ db' = HDel(db, generateStatsKey(req[s].userID, req[s].cookieType),
                  req[s].removedCategory)
    /\ req' = [req EXCEPT ![s] = Cmd(sendSuccessResponse(req[s]))]
    /\ UNCHANGED <<now, nreq, pre, resaved>>

\* GetCookies, up to the first Redis command: the query parameters.
GetCookies(s) ==
    /\ req[s].pc = "GetCookies"
    /\ req' = [req EXCEPT ![s] =
                 IF req[s].qtyStr # <<>>
                    /\ (Atoi(req[s].qtyStr).err \/ Atoi(req[s].qtyStr).val <= 0)
                 THEN sendErrorResponse(req[s], "Invalid qty parameter", 400)
                 ELSE [Goto(s, "GetKeys") EXCEPT
                          !.qty = IF req[s].qtyStr = <<>> THEN 0
                                  ELSE Atoi(req[s].qtyStr).val]]
    /\ UNCHANGED <<db, now, nreq, pre, resaved>>

\* The KEYS pattern of GetCookies: the category's key when a filter is
\* given, every category's key otherwise.
listPattern(userID, cookieType, category) ==
    IF category # <<>> THEN generateCookieKey(userID, cookieType, category)
    ELSE allCategoriesPattern(userID, cookieType)

\* GetCookies: KEYS pattern.
GetKeys(s) ==
    /\ req[s].pc = "GetKeys"
    /\ \E q \in Orders(Keys(db, listPattern(req[s].userID, req[s].cookieType,
                                             req[s].category))) :
          req' = [req EXCEPT ![s] =
                    Cmd([Goto(s, IF q = <<>> THEN "GetRespond" ELSE "GetHGetAll")
                            EXCEPT !.keys = q, !.idx = 1])]
    /\ UNCHANGED <<db, now, nreq, pre, resaved>>

\* GetCookies, loop: HGETALL key; the records are appended in the order the
\* map iteration yields them.
GetHGetAll(s) ==
    /\ req[s].pc = "GetHGetAll"
    /\ LET key       == req[s].keys[req[s].idx]
           cookieMap == IF key \in DOMAIN db THEN db[key] ELSE <<>>
       IN  \E o \in Orders(DOMAIN cookieMap) :
             req' = [req EXCEPT ![s] =
                       Cmd([Goto(s, IF req[s].idx < Len(req[s].keys) THEN "GetHGetAll"
                                    ELSE "GetRespond")
                               EXCEPT !.idx = @ + 1,
                                      !.cookies = @ \o [i \in 1..Len(o) |-> cookieMap[o[i]]]])]
    /\ UNCHANGED <<db, now, nreq, pre, resaved>>

\* rand.Shuffle: every rearrangement of the sequence.
Shuffle(seq) == {[i \in 1..Len(seq) |-> seq[q[i]]] : q \in Orders(1..Len(seq))}

\* Truncate keeping one record too many (cookies[:qty+1]).
Truncate_OneTooMany(seq, qty) ==
    IF qty > 0 /\ Len(seq) > qty THEN SubSeq(seq, 1, qty + 1) ELSE seq

\* cookies[:qty] when qty > 0 and len(cookies) > qty.
Truncate(seq, qty) == IF qty > 0 /\ Len(seq) > qty THEN SubSeq(seq, 1, qty) ELSE seq

\* GetCookies: shuffle if asked, truncate to qty, encode the slice (a nil
\* slice encodes as null).
GetRespond(s) ==
    /\ req[s].pc = "GetRespond"
    /\ \E shuffled \in (IF req[s].randomStr = "true" /\ Len(req[s].cookies) > 0
                         THEN Shuffle(req[s].cookies) ELSE {req[s].cookies}) :
          req' = [req EXCEPT ![s] =
                    [Respond(req[s], 200, IF shuffled = <<>> THEN "null" ELSE "array")
                        EXCEPT !.list = Truncate(shuffled, req[s].qty)]]
    /\ UNCHANGED <<db, now, nreq, pre, resaved>>

\* StatsDetails without the count > 0 filter.
StatsDetails_Unfiltered(stats) == stats

\* The details of GetStats: the fields of the stats hash with a count > 0.
StatsDetails(stats) == [c \in {x \in DOMAIN stats : stats[x] > 0} |-> stats[c]]

\* GetStats: HGETALL statsKey, then the filtered counts.
GetStats(s) ==
    /\ req[s].pc = "GetStats"
    /\ LET statsKey == generateStatsKey(req[s].userID, req[s].cookieType)
           stats    == IF statsKey \in DOMAIN db THEN db[statsKey] ELSE <<>>
       IN  req' = [req EXCEPT ![s] =
                     Cmd([Respond(req[s], 200, "details")
                             EXCEPT !.stats = stats, !.details = StatsDetails(stats)])]
    /\ UNCHANGED <<db, now, nreq, pre, resaved>>

\* ------------------------------------------------------ failing commands
\* A Redis command of the handler r returns an error (the client has given
\* up on it): the command has not been applied to the database, and the
\* handler goes on as its error check says.  failed records which commands
\* of the request have failed.
Failed(r, command) == [Cmd(r) EXCEPT !.failed = @ \cup {command}]

\* SaveCookie: HSET fails: 500.
SaveHSetFails(s) ==
    /\ req[s].pc = "SaveHSet"
    /\ req' = [req EXCEPT ![s] =
                 Failed(sendErrorResponse(req[s], "Failed to save cookie", 500), "SaveHSet")]
    /\ UNCHANGED <<db, now, nreq, pre, resaved>>

\* SaveHIncrByFails issuing the increment a second time, which succeeds.
SaveHIncrByFails_RetriesOnce(s) ==
    /\ req[s].pc = "SaveHIncrBy"
    /\ db' = HIncrBy(db, generateStatsKey(req[s].userID, req[s].cookieType), req[s].cat, 1)
    /\ req' = [req EXCEPT ![s] = Cmd(Failed(sendSuccessResponse(req[s]), "SaveHIncrBy"))]
    /\ UNCHANGED <<now, nreq, pre, resaved>>

\* SaveCookie: HINCRBY fails: the error is printed and the save succeeds.
SaveHIncrByFails(s) ==
    /\ req[s].pc = "SaveHIncrBy"
    /\ req' = [req EXCEPT ![s] = Failed(sendSuccessResponse(req[s]), "SaveHIncrBy")]
    /\ UNCHANGED <<db, now, nreq, pre, resaved>>

\* RemoveCookie: KEYS fails: 500.
RemoveKeysFails(s) ==
    /\ req[s].pc = "RemoveKeys"
    /\ req' = [req EXCEPT ![s] =
                 Failed(sendErrorResponse(req[s], "Failed to search cookies", 500),
                        "RemoveKeys")]
    /\ UNCHANGED <<db, now, nreq, pre, resaved>>

\* RemoveCookie, loop: HEXISTS fails: continue with the next key.
RemoveHExistsFails(s) ==
    /\ req[s].pc = "RemoveHExists"
    /\ req' = [req EXCEPT ![s] =
                 Failed(IF req[s].idx < Len(req[s].keys)
                        THEN [req[s] EXCEPT !.idx = @ + 1]
                        ELSE sendSuccessResponse(req[s]), "RemoveHExists")]
    /\ UNCHANGED <<db, now, nreq, pre, resaved>>

\* RemoveCookie, loop: HGET fails: removedCategory stays empty, the HDEL
\* follows.
RemoveHGetFails(s) ==
    /\ req[s].pc = "RemoveHGet"
    /\ req' = [req EXCEPT ![s] = Failed(Goto(s, "RemoveHDel"), "RemoveHGet")]
    /\ UNCHANGED <<db, now, nreq, pre, resaved>>

\* RemoveCookie, loop: HDEL fails: 500.
RemoveHDelFails(s) ==
    /\ req[s].pc = "RemoveHDel"
    /\ req' = [req EXCEPT ![s] =
                 Failed(sendErrorResponse(req[s], "Failed to remove cookie", 500),
                        "RemoveHDel")]
    /\ UNCHANGED <<db, now, nreq, pre, resaved>>

\* RemoveCookie: HINCRBY fails: the error is printed, the count is read next.
RemoveHIncrByFails(s) ==
    /\ req[s].pc = "RemoveHIncrBy"
    /\ req' = [req EXCEPT ![s] = Failed(Goto(s, "RemoveHGetCount"), "RemoveHIncrBy")]
    /\ UNCHANGED <<db, now, nreq, pre, resaved>>

\* RemoveCookie: HGET of the count fails: nothing is deleted.
RemoveHGetCountFails(s) ==
    /\ req[s].pc = "RemoveHGetCount"
    /\ req' = [req EXCEPT ![s] = Failed(sendSuccessResponse(req[s]), "RemoveHGetCount")]
    /\ UNCHANGED <<db, now, nreq, pre, resaved>>

\* RemoveCookie: HDEL of the stats field fails: its result is not looked at.
RemoveHDelStatsFails(s) ==
    /\ req[s].pc = "RemoveHDelStats"
    /\ req' = [req EXCEPT ![s] = Failed(sendSuccessResponse(req[s]), "RemoveHDelStats")]
    /\ UNCHANGED <<db, now, nreq, pre, resaved>>

\* GetCookies: KEYS fails: 500.
GetKeysFails(s) ==
    /\ req[s].pc = "GetKeys"
    /\ req' = [req EXCEPT ![s] =
                 Failed(sendErrorResponse(req[s], "Failed to retrieve cookies", 500),
                        "GetKeys")]
    /\ UNCHANGED <<db, now, nreq, pre, resaved>>

\* GetCookies, loop: HGETALL fails: continue with the next key.
GetHGetAllFails(s) ==
    /\ req[s].pc = "GetHGetAll"
    /\ req' = [req EXCEPT ![s] =
                 Failed([Goto(s, IF req[s].idx < Len(req[s].keys) THEN "GetHGetAll"
                                 ELSE "GetRespond")
                            EXCEPT !.idx = @ + 1], "GetHGetAll")]
    /\ UNCHANGED <<db, now, nreq, pre, resaved>>

\* GetStats: HGETALL fails: 500.
GetStatsFails(s) ==
    /\ req[s].pc = "GetStats"
    /\ req' = [req EXCEPT ![s] =
                 Failed(sendErrorResponse(req[s], "Failed to retrieve stats", 500),
                        "GetStats")]
    /\ UNCHANGED <<db, now, nreq, pre, resaved>>

\* ------------------------------------------------------------ specifications
\* One step of the handler running in slot s.
Step(s) ==
    \/ Authenticate(s)
    \/ HandleCookieOperations(s)
    \/ SaveCookie(s)
    \/ SaveHSet(s)
    \/ SaveHIncrBy(s)
    \/ RemoveCookie(s)
    \/ RemoveKeys(s)
    \/ RemoveHExists(s)
    \/ RemoveHGet(s)
    \/ RemoveHDel(s)
    \/ RemoveHIncrBy(s)
    \/ RemoveHGetCount(s)
    \/ RemoveHDelStats(s)
    \/ GetCookies(s)
    \/ GetKeys(s)
    \/ GetHGetAll(s)
    \/ GetRespond(s)
    \/ GetStats(s)

\* Sequential runs: a request arrives only when no other is in flight.
ArriveAlone ==
    \E r \in Requests :
        /\ \A t \in Slots : Free(t)
        /\ Arrive(1, r)
        /\ pre' = db

Next == ArriveAlone \/ \E s \in Slots : Step(s)

Spec == Init /\ [][Next]_vars

\* Concurrent runs: requests arrive while others are in flight.  They are the
\* well-formed saves, removes, stats requests and unfiltered lists of one user.
ConcRequests ==
    {r \in Requests : /\ Anomalies(r) = 0
                      /\ r.userID = <<"a">>
                      /\ r.route = "GET" =>
                            r.category = <<>> /\ r.qtyStr = <<>> /\ r.randomStr = ""}

\* The slots are interchangeable: a request takes the lowest free one.
ArriveAny ==
    \E s \in Slots, r \in ConcRequests :
        /\ \A t \in Slots : (t < s => ~Free(t))
        /\ Arrive(s, r)
        /\ UNCHANGED pre

ConcNext == ArriveAny \/ \E s \in Slots : Step(s)

ConcSpec == Init /\ [][ConcNext]_vars

\* One Redis command of the handler running in slot s fails.
FailStep(s) ==
    \/ SaveHSetFails(s)
    \/ SaveHIncrByFails(s)
    \/ RemoveKeysFails(s)
    \/ RemoveHExistsFails(s)
    \/ RemoveHGetFails(s)
    \/ RemoveHDelFails(s)
    \/ RemoveHIncrByFails(s)
    \/ RemoveHGetCountFails(s)
    \/ RemoveHDelStatsFails(s)
    \/ GetKeysFails(s)
    \/ GetHGetAllFails(s)
    \/ GetStatsFails(s)

\* Sequential runs of well-formed requests in which Redis commands can fail.
ArriveAloneWellFormed ==
    \E r \in ConcRequests :
        /\ \A t \in Slots : Free(t)
        /\ Arrive(1, r)
        /\ pre' = db

FailNext == ArriveAloneWellFormed \/ \E s \in Slots : (Step(s) \/ FailStep(s))

FailSpec == Init /\ [][FailNext]_vars

\* Runs that start after earlier saves: the database holds what one save of
\* v1, or a save of v1 and a save of v2, by user "a" into category "c" at
\* time 0 have left.
Saved(d, userID, cookieType, category, cookie) ==
    HIncrBy(HSet(d, generateCookieKey(userID, cookieType, category), cookie,
                 CookieData(cookie, category, 0)),
            generateStatsKey(userID, cookieType), category, 1)

Seeds ==
    {Saved(EmptyDB, <<"a">>, <<"t">>, <<"c">>, "v1"),
     Saved(Saved(EmptyDB, <<"a">>, <<"t">>, <<"c">>, "v1"), <<"a">>, <<"t">>, <<"c">>, "v2")}

SeededInit ==
    /\ db \in Seeds
    /\ now = 0
    /\ req = [s \in Slots |-> NoRequest]
    /\ nreq = 0
    /\ pre = db
    /\ resaved = FALSE

SeededSpec == SeededInit /\ [][Next]_vars

\* In the concurrent runs pre stays the database the run started with.
SeededConcSpec == SeededInit /\ [][ConcNext]_vars

\* ================================================================== claims
\* The request of a sequential run, and whether it is answered.
R == req[1]

Answered(route, operation) ==
    /\ R.pc = "done"
    /\ R.route = route
    /\ R.operation = operation

\* The categories a save can name, the default applied.
AllCategories == {IF c = <<>> THEN S_default ELSE c : c \in SaveCategories}

\* The entry map of category c of (u, t) in database d.
EntryMap(d, u, t, c) ==
    IF generateCookieKey(u, t, c) \in DOMAIN d THEN d[generateCookieKey(u, t, c)] ELSE <<>>

\* The stats map of (u, t) in database d, and the count it holds for c.
StatsMap(d, u, t) ==
    IF generateStatsKey(u, t) \in DOMAIN d THEN d[generateStatsKey(u, t)] ELSE <<>>

Count(d, u, t, c) == IF c \in DOMAIN StatsMap(d, u, t) THEN StatsMap(d, u, t)[c] ELSE 0

\* The categories of (u, t) under which v is stored in d.
CategoriesOf(d, u, t, v) == {c \in AllCategories : v \in DOMAIN EntryMap(d, u, t, c)}

\* How often the sequence seq holds a record of cookie v.
Occurrences(seq, v) == Cardinality({i \in 1..Len(seq) : seq[i].cookie = v})

\* The cookie values an unfiltered list of (u, t) gathers from d.
ListedValues(d, u, t) ==
    UNION {DOMAIN d[k] : k \in Keys(d, listPattern(u, t, <<>>))}

\* Whether (u, t) is free of glob metacharacters.
GlobFree(u, t) == \A i \in 1..Len(u \o t) : (u \o t)[i] \notin {"*", "?"}

\* ---- C1 ----------------------------------------------------------------
\* C1: in a sequential run, a successful Save of v into c stores a record of
\* cookie v and category c in the entry map of c, and an unfiltered List
\* without qty returns, for every value stored under exactly one category c
\* of its (userId, cookieType), exactly one record of that cookie, whose
\* category is c.
C1_SaveStores ==
    (Answered("POST", "saveCookie") /\ R.status = 200) =>
        LET c == IF R.category = <<>> THEN S_default ELSE R.category
        IN  /\ R.cookie \in DOMAIN EntryMap(db, R.userID, R.cookieType, c)
            /\ EntryMap(db, R.userID, R.cookieType, c)[R.cookie].cookie = R.cookie
            /\ EntryMap(db, R.userID, R.cookieType, c)[R.cookie].category = c

C1_ListReturnsOnce(u, t) ==
    (/\ R.pc = "done" /\ R.route = "GET" /\ R.status = 200
     /\ R.userID = u /\ R.cookieType = t
     /\ R.category = <<>> /\ R.qtyStr = <<>>) =>
        \A v \in CookieValues, c \in AllCategories :
            CategoriesOf(db, u, t, v) = {c} =>
                /\ Occurrences(R.list, v) = 1
                /\ \A i \in 1..Len(R.list) : R.list[i].cookie = v => R.list[i].category = c

C1_SaveThenList ==
    /\ C1_SaveStores
    /\ \A u \in UserIDs, t \in CookieTypes : C1_ListReturnsOnce(u, t)

\* The same for the (userId, cookieType) without glob metacharacters.
C1_SaveThenList_GlobFree ==
    /\ C1_SaveStores
    /\ \A u \in UserIDs, t \in CookieTypes : GlobFree(u, t) => C1_ListReturnsOnce(u, t)

\* ---- C2 ----------------------------------------------------------------
\* C2: in a sequential run, a Remove of a value v stored in exactly one
\* category c of its (userId, cookieType) leaves v out of what a List of
\* that (userId, cookieType) gathers, lowers the stats count of c by exactly
\* one, leaves c out of the Stats output when the count has reached 0, and
\* changes the count of no other category.
C2_RemoveOne(u, t) ==
    (/\ Answered("POST", "removeCookie") /\ R.status = 200
     /\ R.userID = u /\ R.cookieType = t) =>
        \A c \in AllCategories :
            CategoriesOf(pre, u, t, R.cookie) = {c} =>
                /\ R.cookie \notin ListedValues(db, u, t)
                /\ Count(db, u, t, c) = Count(pre, u, t, c) - 1
                /\ Count(db, u, t, c) = 0 => c \notin DOMAIN StatsDetails(StatsMap(db, u, t))
                /\ \A c2 \in (DOMAIN StatsMap(pre, u, t) \cup DOMAIN StatsMap(db, u, t)) \ {c} :
                      /\ c2 \in DOMAIN StatsMap(pre, u, t)
                      /\ c2 \in DOMAIN StatsMap(db, u, t)
                      /\ StatsMap(db, u, t)[c2] = StatsMap(pre, u, t)[c2]

C2_RemoveFromOneCategory == \A u \in UserIDs, t \in CookieTypes : C2_RemoveOne(u, t)

\* The same for the (userId, cookieType) without glob metacharacters.
C2_RemoveFromOneCategory_GlobFree ==
    \A u \in UserIDs, t \in CookieTypes : GlobFree(u, t) => C2_RemoveOne(u, t)

\* ---- C3 ----------------------------------------------------------------
\* C3: a Remove of a value stored in no category of its (userId,
\* cookieType) answers with success and leaves the database (the stats maps
\* and every entry map) as it was when the request arrived.
C3_RemoveAbsent(u, t) ==
    (/\ Answered("POST", "removeCookie")
     /\ R.apiKey = APIKey /\ R.json = "ok" /\ ~OddTransport(R) /\ R.cookie # ""
     /\ R.userID = u /\ R.cookieType = t
     /\ CategoriesOf(pre, u, t, R.cookie) = {}) =>
        /\ R.status = 200 /\ R.body = "success"
        /\ db = pre

C3_RemoveNothing == \A u \in UserIDs, t \in CookieTypes : C3_RemoveAbsent(u, t)

\* The same for the (userId, cookieType) without glob metacharacters.
C3_RemoveNothing_GlobFree ==
    \A u \in UserIDs, t \in CookieTypes : GlobFree(u, t) => C3_RemoveAbsent(u, t)

\* ---- C4 ----------------------------------------------------------------
\* C4: in a sequential run, every successful Save of v into c raises the
\* stats count of c by exactly one, also when v was already stored in c, and
\* then the entry map of c keeps the values it had: k Saves of v into c
\* raise the count by k and leave one entry for v.
C4_ResaveInflatesCount ==
    (Answered("POST", "saveCookie") /\ R.status = 200) =>
        LET u == R.userID
            t == R.cookieType
            c == IF R.category = <<>> THEN S_default ELSE R.category
        IN  /\ Count(db, u, t, c) = Count(pre, u, t, c) + 1
            /\ R.cookie \in DOMAIN EntryMap(pre, u, t, c) =>
                  DOMAIN EntryMap(db, u, t, c) = DOMAIN EntryMap(pre, u, t, c)

\* A value has been saved a second time into its category: the count is 2
\* over one entry.
C4_Witness ==
    /\ Answered("POST", "saveCookie") /\ R.status = 200
    /\ LET c == IF R.category = <<>> THEN S_default ELSE R.category
       IN  /\ DOMAIN EntryMap(pre, R.userID, R.cookieType, c) = {R.cookie}
           /\ DOMAIN EntryMap(db, R.userID, R.cookieType, c) = {R.cookie}
           /\ Count(pre, R.userID, R.cookieType, c) = 1
           /\ Count(db, R.userID, R.cookieType, c) = 2

\* ---- C5 ----------------------------------------------------------------
\* C5: in a sequential run in which no Save has overwritten a stored value,
\* after each completed request the stats count of every category of every
\* (userId, cookieType) equals the number of values in its entry map, and
\* the category is absent from the stats map exactly when its entry map is
\* empty.
C5_CountsMatch(u, t) ==
    ((\A s \in Slots : Free(s)) /\ ~resaved) =>
        \A c \in AllCategories \cup DOMAIN StatsMap(db, u, t) :
            /\ Count(db, u, t, c) = Cardinality(DOMAIN EntryMap(db, u, t, c))
            /\ c \notin DOMAIN StatsMap(db, u, t) <=> DOMAIN EntryMap(db, u, t, c) = {}

C5_CountEqualsEntries == \A u \in UserIDs, t \in CookieTypes : C5_CountsMatch(u, t)

\* ---- C6 ----------------------------------------------------------------
\* C6: under any interleaving of concurrent requests, once every request in
\* flight has completed no stats map holds a category whose count is zero
\* or negative.
C6_NoNonPositiveCount ==
    (\A s \in Slots : Free(s)) =>
        \A u \in UserIDs, t \in CookieTypes :
            \A c \in DOMAIN StatsMap(db, u, t) : StatsMap(db, u, t)[c] > 0

\* Two removes of the same value have run side by side, and each has found
\* the value, decremented the count and read it back.
C6_Witness ==
    /\ \A s \in Slots : /\ req[s].pc = "done"
                         /\ req[s].operation = "removeCookie"
                         /\ req[s].cmds >= 6
    /\ req[1].cookie = req[2].cookie
    /\ nreq = 3

\* ---- C7 ----------------------------------------------------------------
\* The records of a hash.
Records(h) == {h[f] : f \in DOMAIN h}

\* The records a list response holds.
Listed(seq) == {seq[i] : i \in 1..Len(seq)}

\* C7: a List with category=X returns only records stored under category X
\* of its (userId, cookieType), and all of them when qty is absent.
C7_FilterOnly(u, t, X) ==
    (/\ R.pc = "done" /\ R.route = "GET" /\ R.status = 200
     /\ R.userID = u /\ R.cookieType = t /\ R.category = X) =>
        /\ Listed(R.list) \subseteq Records(EntryMap(db, u, t, X))
        /\ \A i \in 1..Len(R.list) : R.list[i].category = X
        /\ R.qtyStr = <<>> => Listed(R.list) = Records(EntryMap(db, u, t, X))

C7_CategoryFilter ==
    \A u \in UserIDs, t \in CookieTypes, X \in FilterCategories \ {<<>>} :
        C7_FilterOnly(u, t, X)

\* The same for the (userId, cookieType) and filters without glob
\* metacharacters.
C7_CategoryFilter_GlobFree ==
    \A u \in UserIDs, t \in CookieTypes, X \in FilterCategories \ {<<>>} :
        GlobFree(u, X \o t) => C7_FilterOnly(u, t, X)

\* ---- C8 ----------------------------------------------------------------
\* The stored records a list of (u, t) with filter X matches in d, each as
\* the pair of its key and its field.
Matching(d, u, t, X) ==
    UNION {{<<k, f>> : f \in DOMAIN d[k]} : k \in Keys(d, listPattern(u, t, X))}

\* C8: a List with a valid qty = q over n matching stored records returns
\* exactly min(q, n) records, each a matching stored record, none more
\* often than it is stored, with and without random=true.
C8_QtyCaps ==
    (/\ R.pc = "done" /\ R.route = "GET" /\ R.status = 200 /\ R.qtyStr # <<>>) =>
        LET q == Atoi(R.qtyStr).val
            m == Matching(db, R.userID, R.cookieType, R.category)
            n == Cardinality(m)
        IN  /\ Len(R.list) = IF q < n THEN q ELSE n
            /\ \A i \in 1..Len(R.list) :
                  /\ \E p \in m : db[p[1]][p[2]] = R.list[i]
                  /\ Cardinality({j \in 1..Len(R.list) : R.list[j] = R.list[i]})
                       <= Cardinality({p \in m : db[p[1]][p[2]] = R.list[i]})

\* A shuffled list with qty=1 over two matching records has returned one.
C8_Witness ==
    /\ R.pc = "done" /\ R.route = "GET" /\ R.status = 200
    /\ R.qtyStr = <<"1">> /\ R.randomStr = "true"
    /\ Cardinality(Matching(db, R.userID, R.cookieType, R.category)) = 2
    /\ Len(R.list) = 1

\* ---- C9 ----------------------------------------------------------------
\* C9: a request on any route whose x-api-key header is missing or differs
\* from the configured key is answered 401, and no Redis command is issued
\* while it is handled: the database is as it was when the request arrived.
C9_UnauthorizedTouchesNothing ==
    (R.pc = "done" /\ R.apiKey # APIKey) =>
        /\ R.status = 401 /\ R.body = "Unauthorized"
        /\ R.cmds = 0
        /\ db = pre

\* A save without the header has been answered over a database that holds
\* cookies.
C9_Witness ==
    /\ Answered("POST", "saveCookie") /\ R.apiKey = "" /\ R.status = 401
    /\ db # EmptyDB

\* ---- C10 ---------------------------------------------------------------
\* C10 as stated: an authenticated GET to the combined endpoint that carries
\* an unrecognized operation value returns 400.
C10_GetUnknownOperationIs400 ==
    (/\ R.pc = "done" /\ R.route = "GET" /\ R.apiKey = APIKey
     /\ R.operation \notin {"", "saveCookie", "removeCookie"}) => R.status = 400

\* C10, amended: an authenticated GET to the combined endpoint is served as
\* a List whatever operation value it carries: it returns 200 when its qty
\* is absent or valid, and 400 "Invalid qty parameter" otherwise.
C10_GetIsServedAsList ==
    (R.pc = "done" /\ R.route = "GET" /\ R.apiKey = APIKey) =>
        IF R.qtyStr = <<>> \/ (~Atoi(R.qtyStr).err /\ Atoi(R.qtyStr).val > 0)
        THEN R.status = 200 /\ R.body \in {"null", "array"}
        ELSE R.status = 400 /\ R.body = "Invalid qty parameter"

\* A GET that carries the operation "other" has been answered with a list.
C10_Witness ==
    /\ R.pc = "done" /\ R.route = "GET" /\ R.apiKey = APIKey
    /\ R.operation = "other"
    /\ R.status = 200 /\ R.body = "array"

\* On the POST side the dispatcher answers an unrecognized operation value
\* with 400 and issues no Redis command, when the request declares its
\* Content-Length.
C10_PostUnknownOperationIs400 ==
    (/\ R.pc = "done" /\ R.route = "POST" /\ R.apiKey = APIKey
     /\ R.contentLength >= 0
     /\ R.operation \notin {"saveCookie", "removeCookie"}) =>
        R.status = 400 /\ R.cmds = 0

\* ---- C11 ---------------------------------------------------------------
\* Every key of the database outside K holds what it held when the request
\* arrived.
OtherKeysUnchanged(K) ==
    \A k \in (DOMAIN db \cup DOMAIN pre) \ K :
        k \in DOMAIN db /\ k \in DOMAIN pre /\ db[k] = pre[k]

\* Every category of the stats map of (u, t) outside C holds the count it
\* held when the request arrived.
OtherCountsUnchanged(u, t, C) ==
    \A c \in (DOMAIN StatsMap(db, u, t) \cup DOMAIN StatsMap(pre, u, t)) \ C :
        /\ c \in DOMAIN StatsMap(db, u, t)
        /\ c \in DOMAIN StatsMap(pre, u, t)
        /\ StatsMap(db, u, t)[c] = StatsMap(pre, u, t)[c]

\* C11: a successful Save whose category is omitted or empty stores the
\* record in the entry map of category "default" with the record's category
\* "default", raises the stats count of "default" by one, and changes no
\* other count and no other key.
C11_DefaultCategory ==
    (Answered("POST", "saveCookie") /\ R.status = 200 /\ R.category = <<>>) =>
        LET u == R.userID
            t == R.cookieType
        IN  /\ R.cookie \in DOMAIN EntryMap(db, u, t, S_default)
            /\ EntryMap(db, u, t, S_default)[R.cookie].category = S_default
            /\ Count(db, u, t, S_default) = Count(pre, u, t, S_default) + 1
            /\ OtherCountsUnchanged(u, t, {S_default})
            /\ OtherKeysUnchanged({generateCookieKey(u, t, S_default),
                                   generateStatsKey(u, t)})

\* A save without a category has been answered over a stats map that
\* already counts another category.
C11_Witness ==
    /\ Answered("POST", "saveCookie") /\ R.status = 200 /\ R.category = <<>>
    /\ DOMAIN StatsMap(pre, R.userID, R.cookieType) = {<<"c">>}
    /\ DOMAIN StatsMap(db, R.userID, R.cookieType) = {<<"c">>, S_default}
    /\ EntryMap(db, R.userID, R.cookieType, S_default)[R.cookie].category = S_default

\* ---- C12 ---------------------------------------------------------------
\* C12: a successful Save of v into c leaves the entry map of c with the
\* values it had and v, v's entry being the record this Save has built (it
\* replaces an earlier one), every other entry of c as it was, and every
\* other category's entry map as it was: a value saved into two categories
\* has one entry in each.
C12_SaveIsUpsert ==
    (Answered("POST", "saveCookie") /\ R.status = 200) =>
        LET u == R.userID
            t == R.cookieType
            c == IF R.category = <<>> THEN S_default ELSE R.category
        IN  /\ DOMAIN EntryMap(db, u, t, c) = DOMAIN EntryMap(pre, u, t, c) \cup {R.cookie}
            /\ EntryMap(db, u, t, c)[R.cookie] = CookieData(R.cookie, c, now)
            /\ \A w \in DOMAIN EntryMap(pre, u, t, c) \ {R.cookie} :
                  EntryMap(db, u, t, c)[w] = EntryMap(pre, u, t, c)[w]
            /\ \A c2 \in AllCategories \ {c} :
                  EntryMap(db, u, t, c2) = EntryMap(pre, u, t, c2)
            /\ OtherKeysUnchanged({generateCookieKey(u, t, c), generateStatsKey(u, t)})

\* A value stored in two categories has been saved again into one of them
\* at a later time: its record there is the later one, the other category
\* keeps its entry.
C12_Witness ==
    /\ Answered("POST", "saveCookie") /\ R.status = 200
    /\ LET u == R.userID
           t == R.cookieType
           c == IF R.category = <<>> THEN S_default ELSE R.category
       IN  /\ CategoriesOf(pre, u, t, R.cookie) = AllCategories
           /\ CategoriesOf(db, u, t, R.cookie) = AllCategories
           /\ EntryMap(pre, u, t, c)[R.cookie].timestamp = 0
           /\ EntryMap(db, u, t, c)[R.cookie].timestamp = 1

\* ---- C13 ---------------------------------------------------------------
\* The commands of the primary read/write path: the entry write of Save;
\* the key enumeration, existence check and entry delete of Remove; the key
\* enumeration and entry-map read of List; the stats-map read of Stats.
PrimaryCommands ==
    {"SaveHSet", "RemoveKeys", "RemoveHExists", "RemoveHDel", "GetKeys", "GetHGetAll",
     "GetStats"}

\* C13: a request during which a command of the primary read/write path
\* has failed is answered with 500.
C13_PrimaryFailureIs500 ==
    (R.pc = "done" /\ R.failed \cap PrimaryCommands # {}) => R.status = 500

\* The same for the commands whose error the handlers answer with 500.
C13_CheckedFailureIs500 ==
    (R.pc = "done" /\ R.failed \cap (PrimaryCommands \ {"RemoveHExists", "GetHGetAll"}) # {})
        => R.status = 500

\* ---- C14 ---------------------------------------------------------------
\* C14: an authenticated POST whose operation is neither "saveCookie" nor
\* "removeCookie", or whose cookie value is empty, is answered with 400 and
\* issues no Redis command: the database is as it was when the request
\* arrived.
C14_InvalidPostIs400 ==
    (/\ R.pc = "done" /\ R.route = "POST" /\ R.apiKey = APIKey
     /\ R.operation \notin {"saveCookie", "removeCookie"} \/ R.cookie = "") =>
        /\ R.status = 400
        /\ R.cmds = 0
        /\ db = pre

\* The same for the POSTs that declare their Content-Length.
C14_InvalidPostIs400_DeclaredLength ==
    (/\ R.pc = "done" /\ R.route = "POST" /\ R.apiKey = APIKey
     /\ R.contentLength >= 0
     /\ R.operation \notin {"saveCookie", "removeCookie"} \/ R.cookie = "") =>
        /\ R.status = 400
        /\ R.cmds = 0
        /\ db = pre

\* ---- C15 ---------------------------------------------------------------
\* C15: in a sequential run, a successful Remove of a value v stored in two
\* or more categories of its (userId, cookieType) deletes v from exactly one
\* of them, leaves v in the others, lowers the stats count of the category
\* it deleted from by one and changes the count of no other category.
C15_RemoveOneOfMany(u, t) ==
    (/\ Answered("POST", "removeCookie") /\ R.status = 200
     /\ R.userID = u /\ R.cookieType = t
     /\ Cardinality(CategoriesOf(pre, u, t, R.cookie)) >= 2) =>
        \E c \in CategoriesOf(pre, u, t, R.cookie) :
            /\ CategoriesOf(db, u, t, R.cookie) = CategoriesOf(pre, u, t, R.cookie) \ {c}
            /\ Count(db, u, t, c) = Count(pre, u, t, c) - 1
            /\ OtherCountsUnchanged(u, t, {c})

C15_RemoveFromOneOfMany == \A u \in UserIDs, t \in CookieTypes : C15_RemoveOneOfMany(u, t)

\* The same for the (userId, cookieType) without glob metacharacters.
C15_RemoveFromOneOfMany_GlobFree ==
    \A u \in UserIDs, t \in CookieTypes : GlobFree(u, t) => C15_RemoveOneOfMany(u, t)

ReadPositions == {"GetCookies", "GetKeys", "GetHGetAll", "GetRespond", "GetStats"}

\* Every category of an answered Stats has a positive count: the response
\* holds the fields read from the stats map whose count is positive.
C17_StatsPositive ==
    \A s \in Slots :
        (req[s].pc = "done" /\ req[s].route = "STATS" /\ req[s].status = 200) =>
            /\ \A c \in DOMAIN req[s].details : req[s].details[c] > 0
            /\ DOMAIN req[s].details = {c \in DOMAIN req[s].stats : req[s].stats[c] > 0}
            /\ \A c \in DOMAIN req[s].details : req[s].details[c] = req[s].stats[c]

\* A step of a List or Stats handler leaves the database as it is.
C17_ReadOnlyStep ==
    \A s \in Slots :
        (req[s].pc \in ReadPositions /\ req'[s] # req[s]) => db' = db

\* C17: under any interleaving with concurrent Saves and Removes, a Stats
\* response never contains a category whose count is zero or negative, and
\* no step of a Stats or of a List writes to the database.
C17_StatsAndListReadOnly == []C17_StatsPositive /\ [][C17_ReadOnlyStep]_vars

\* A Stats has read a stats map that held a category with a count of zero
\* or less (a Remove was between its decrement and its delete) and has
\* answered without that category.
C17_Witness ==
    \E s \in Slots :
        /\ req[s].pc = "done" /\ req[s].route = "STATS" /\ req[s].status = 200
        /\ \E c \in DOMAIN req[s].stats :
              req[s].stats[c] <= 0 /\ c \notin DOMAIN req[s].details

\* ---- C18 ---------------------------------------------------------------
\* The (userId, cookieType) namespaces other than that of the request.
OtherNamespaces ==
    {n \in UserIDs \X CookieTypes : n # <<R.userID, R.cookieType>>}

\* C18: a Remove addressed to one (userId, cookieType) deletes no entry
\* and changes no stats count of another, and a List addressed to one
\* returns only records stored under it.
C18_NamespaceIsolation ==
    /\ Answered("POST", "removeCookie") =>
          \A n \in OtherNamespaces :
              /\ StatsMap(db, n[1], n[2]) = StatsMap(pre, n[1], n[2])
              /\ \A c \in AllCategories :
                    EntryMap(db, n[1], n[2], c) = EntryMap(pre, n[1], n[2], c)
    /\ (R.pc = "done" /\ R.route = "GET" /\ R.status = 200) =>
          Listed(R.list) \subseteq
              UNION {Records(EntryMap(db, R.userID, R.cookieType, c)) : c \in AllCategories}

\* The same for the requests whose userId, cookieType and category filter
\* are without glob metacharacters.
C18_NamespaceIsolation_GlobFree ==
    GlobFree(R.userID, R.category \o R.cookieType) => C18_NamespaceIsolation

\* ---- C19 ---------------------------------------------------------------
\* Every request of the run has been answered.
AllAnswered == \A s \in Slots : req[s].pc = "done"

\* C19: when the two requests of a run are Removes of the same value v,
\* stored in exactly one category c when the run started, the stats count
\* of c after both is one less than at the start, however the two have
\* interleaved.
C19_DecrementedOnce ==
    (/\ AllAnswered /\ nreq = 2
     /\ \A s \in Slots : req[s].operation = "removeCookie" /\ req[s].status = 200
     /\ req[1].cookie = req[2].cookie
     /\ req[1].userID = req[2].userID /\ req[1].cookieType = req[2].cookieType) =>
        LET u == req[1].userID
            t == req[1].cookieType
        IN  \A c \in AllCategories :
                CategoriesOf(pre, u, t, req[1].cookie) = {c} =>
                    /\ CategoriesOf(db, u, t, req[1].cookie) = {}
                    /\ Count(db, u, t, c) = Count(pre, u, t, c) - 1

\* ---- C20 ---------------------------------------------------------------
\* C20: when the two requests of a run are a Remove and a Save of another
\* value into category c of the same (userId, cookieType), then after both,
\* however they have interleaved, the stats count of c is at least the
\* number of values stored in c's entry map.
C20_SaveCountKept ==
    \A s, o \in Slots :
        (/\ AllAnswered /\ nreq = 2
         /\ req[s].operation = "removeCookie" /\ req[s].status = 200
         /\ req[o].operation = "saveCookie" /\ req[o].status = 200
         /\ req[s].cookie # req[o].cookie
         /\ req[s].userID = req[o].userID /\ req[s].cookieType = req[o].cookieType) =>
            LET u == req[o].userID
                t == req[o].cookieType
                c == IF req[o].category = <<>> THEN S_default ELSE req[o].category
            IN  Count(db, u, t, c) >= Cardinality(DOMAIN EntryMap(db, u, t, c))

====
